---- MODULE Spec2Model ----
(***************************************************************************)
(* Appomata: the finite-state-automata engine of src/webpack.config.js.    *)
(* The model follows the JavaScript of the Factory (Appomata), Automata,   *)
(* State and View classes: the registries captured in the module closures, *)
(* the property lookups on plain objects, and the suspension point of the  *)
(* asynchronous transit.                                                   *)
(***************************************************************************)
EXTENDS Integers, Sequences, FiniteSets, TLC

(* ---------------------------------------------------------------------- *)
(* Bounds of the model                                                     *)
(* ---------------------------------------------------------------------- *)
\* transit calls suspended on their handler at the same time
MaxPending == 2
\* View objects created by createView
MaxViews == 2

(* ---------------------------------------------------------------------- *)
(* JavaScript values                                                       *)
(* ---------------------------------------------------------------------- *)
NULL == "null"
UNDEF == "undefined"
\* the function Object, the value of ({}).constructor
OBJECT == "Object"

\* names of the automata the client creates
AutomataNames == {"login", "cart"}

\* State objects the client builds with createState / new State
UserStates == {"idle1", "idle2", "init1"}
\* the State object createAutomata builds for each automaton
FailedOf(a) == IF a = "login" THEN "failedL" ELSE "failedC"
FailedStates == {FailedOf(a) : a \in AutomataNames}
StateObjs == UserStates \cup FailedStates

\* state.name, set by the State constructor
StName(o) ==
    CASE o \in {"idle1", "idle2"} -> "idle"
      [] o = "init1" -> "init"
      [] OTHER -> "failed"

\* the handlers defineAction put on the State object as own properties
StActions(o) ==
    CASE o = "idle1" -> {"go", "logout"}
      [] o = "idle2" -> {"go"}
      [] o = "init1" -> {"go"}
      [] OTHER -> {"failed", "back"}

\* methods every State inherits from State.prototype (of the action names used)
StateProtoMethods == {"failed"}
\* members every plain object inherits from Object.prototype (of the names used)
ObjectProtoKeys == {"constructor"}

ActionNames == {"go", "logout", "back", "failed"}
\* names a client may pass as a state name: registered ones, an inherited
\* member of the table object, a name nobody registers
NameArgs == {"idle", "init", "failed", "constructor", "nowhere"}

\* delta.input: undefined, or an object with message and from
InUndef == [kind |-> "undef", message |-> UNDEF, from |-> UNDEF]
InObj == [kind |-> "obj", message |-> "boom", from |-> "idle"]
Inputs == {InUndef, InObj}

\* buffer.failedOutput: absent, or {message, from}
NoOutput == [set |-> FALSE, message |-> UNDEF, from |-> UNDEF]

\* View names; "1" is an integer-like property key
ViewNames == {"header", "1"}
IsArrayIndex(k) == k \in {"1"}

\* keys of the state table (own properties the model can hold)
TableKeys == {"idle", "init", "failed"}

VARIABLES
    names,          \* Appomata closure: the Set of View names
    connectedApps,  \* Appomata closure: the Set of Apps of each automaton, in insertion order
    allTomata,      \* Appomata closure: names of the automata, in key order
    states,         \* Automata closure: the state table, name -> State object
    stAutomata,     \* state.automata of each State object
    stViews,        \* state.views of each State object: its keys, in insertion order
    views,          \* the View objects created so far: <<[name, automata]>>
    now,            \* automata.now
    initialState,   \* automata.initialState
    buffer,         \* automata.buffer.failedOutput
    context,        \* automata.context (a flag the client's handlers set)
    calls,          \* transit calls suspended at "await this.now.transit(...)"
    last            \* what the last operation did and returned

vars == <<names, connectedApps, allTomata, states, stAutomata, stViews, views, now, initialState,
          buffer, context, calls, last>>

Range(f) == {f[i] : i \in DOMAIN f}

\* JavaScript truthiness of the values the model holds
Truthy(v) == v \notin {UNDEF, NULL, ""}

\* helpers' assert(condition, message): raises when the condition is false
assert(cond) == IF cond THEN "ok" ELSE "threw"

(* ---------------------------------------------------------------------- *)
(* Property lookups                                                        *)
(* ---------------------------------------------------------------------- *)
\* states[n] on the table object {}: an own key, else what {} inherits
StatesGet(tbl, n) ==
    IF n \in TableKeys THEN tbl[n]
    ELSE IF n \in ObjectProtoKeys THEN OBJECT
    ELSE UNDEF

\* this.now[action] on a State object (or on the function Object)
StateProp(o, action) ==
    IF o = OBJECT THEN (IF action \in ObjectProtoKeys THEN "method" ELSE UNDEF)
    ELSE IF action \in StActions(o) THEN "handler"
    ELSE IF action \in StateProtoMethods \cup ObjectProtoKeys THEN "method"
    ELSE UNDEF

\* Object.values(state.views): integer-like keys come first (ascending; the
\* model has one such name), then the other keys in insertion order
ObjectValues(vs, ids) ==
    SelectSeq(ids, LAMBDA v : IsArrayIndex(vs[v].name))
        \o SelectSeq(ids, LAMBDA v : ~IsArrayIndex(vs[v].name))

\* state.views[view.name] on a State object
ViewsGet(vs, ids, name) ==
    IF \E i \in DOMAIN ids : vs[ids[i]].name = name
    THEN CHOOSE v \in Range(ids) : vs[v].name = name
    ELSE 0

(* ---------------------------------------------------------------------- *)
(* The record of the last operation                                        *)
(* ---------------------------------------------------------------------- *)
L0 == [op |-> "load", aut |-> NULL, arg |-> NULL, action |-> NULL, obj |-> NULL,
       view |-> 0, result |-> "ok", error |-> "none", handler |-> "none",
       from |-> NULL, prev |-> NULL, next |-> NULL, omegaViews |-> <<>>,
       events |-> <<>>, asked |-> <<>>, started |-> <<>>,
       render |-> TRUE, recover |-> NULL, list |-> <<>>, notified |-> <<>>,
       cleanUp |-> <<>>]

Init ==
    /\ names = {}
    /\ connectedApps = [a \in AutomataNames |-> <<>>]
    /\ allTomata = <<>>
    /\ states = [n \in TableKeys |-> UNDEF]
    /\ stAutomata = [o \in StateObjs |-> UNDEF]
    /\ stViews = [o \in StateObjs |-> <<>>]
    /\ views = <<>>
    /\ now = [a \in AutomataNames |-> NULL]
    /\ initialState = [a \in AutomataNames |-> UNDEF]
    /\ buffer = [a \in AutomataNames |-> NoOutput]
    /\ context = [a \in AutomataNames |-> 0]
    /\ calls = <<>>
    /\ last = L0

Created(a) == a \in Range(allTomata)

\* this.now.name
NowName(cur) ==
    IF cur \in StateObjs THEN StName(cur)
    ELSE IF cur = OBJECT THEN "Object"
    ELSE UNDEF

(* ---------------------------------------------------------------------- *)
(* Factory: createView                                                     *)
(* ---------------------------------------------------------------------- *)
\* createView({name, render, automata}); render is given or undefined
CreateViewResult(nameSet, name, hasRender) ==
    IF assert(name \notin nameSet) = "threw" THEN "threw"
    ELSE assert(hasRender)

createView(name, hasRender, automata) ==
    /\ Len(views) < MaxViews
    /\ LET res == CreateViewResult(names, name, hasRender)
       IN /\ views' = IF res = "ok"
                      THEN Append(views, [name |-> name,
                                          automata |-> IF Truthy(automata) THEN automata ELSE UNDEF,
                                          states |-> {}, automatas |-> {}])
                      ELSE views
          /\ last' = [L0 EXCEPT !.op = "createView", !.arg = name, !.result = res,
                                !.render = hasRender,
                                !.error = IF res = "ok" THEN "none" ELSE "AssertionError",
                                !.view = IF res = "ok" THEN Len(views) + 1 ELSE 0]
    /\ UNCHANGED <<names, connectedApps, allTomata, states, stAutomata, stViews, now, initialState,
                   buffer, context, calls>>

(* ---------------------------------------------------------------------- *)
(* State.addView, Automata.addState, Automata.addView                      *)
(* ---------------------------------------------------------------------- *)
\* state.addView(view) on the State object o: the views and stViews after it
StateAddViewOn(st, o, v) ==
    IF ViewsGet(st.views, st.stViews[o], st.views[v].name) = 0
    THEN [views |-> [st.views EXCEPT ![v].states = @ \cup {StName(o)}],
          stViews |-> [st.stViews EXCEPT ![o] = Append(@, v)]]
    ELSE st

State_addView(o, v) ==
    /\ v \in DOMAIN views
    /\ LET r == StateAddViewOn([views |-> views, stViews |-> stViews], o, v)
       IN /\ views' = r.views
          /\ stViews' = r.stViews
    /\ last' = [L0 EXCEPT !.op = "State.addView", !.obj = o, !.view = v]
    /\ UNCHANGED <<names, connectedApps, allTomata, states, stAutomata, now, initialState,
                   buffer, context, calls>>

\* addState without its "if (!states[state.name])": the table entry is overwritten
AddStateTableOverwrite(tbl, a, o) == [tbl EXCEPT ![StName(o)] = o]

\* addState(state) with this bound to the automaton a
AddStateTable(tbl, a, o) ==
    IF ~Truthy(StatesGet(tbl, StName(o))) THEN [tbl EXCEPT ![StName(o)] = o] ELSE tbl

AddStateOwner(tbl, owner, a, o) ==
    IF ~Truthy(StatesGet(tbl, StName(o))) THEN [owner EXCEPT ![o] = a] ELSE owner

AddStateViews(tbl, vs, a, o) ==
    IF ~Truthy(StatesGet(tbl, StName(o)))
    THEN [v \in DOMAIN vs |->
            IF v \in Range(stViews[o]) THEN [vs[v] EXCEPT !.automata = a] ELSE vs[v]]
    ELSE vs

addState(a, o) ==
    /\ Created(a)
    /\ states' = AddStateTable(states, a, o)
    /\ stAutomata' = AddStateOwner(states, stAutomata, a, o)
    /\ views' = AddStateViews(states, views, a, o)
    /\ last' = [L0 EXCEPT !.op = "addState", !.aut = a, !.obj = o, !.arg = StName(o)]
    /\ UNCHANGED <<names, connectedApps, allTomata, stViews, now, initialState, buffer, context, calls>>

\* the names addView attaches to: the given one, or Object.keys(states),
\* filtered by states[s]
AttachedStates(tbl, sname) ==
    {s \in (IF Truthy(sname) THEN {sname} ELSE TableKeys) : Truthy(StatesGet(tbl, s))}

RECURSIVE AttachAll(_, _, _)
AttachAll(st, objs, v) ==
    IF objs = {} THEN st
    ELSE LET o == CHOOSE x \in objs : TRUE
         IN AttachAll(StateAddViewOn(st, o, v), objs \ {o}, v)

Automata_addView(a, v, sname) ==
    /\ Created(a)
    /\ v \in DOMAIN views
    /\ LET att == AttachedStates(states, sname)
           marked == IF att = {} THEN views
                     ELSE [views EXCEPT ![v].automatas = @ \cup {a}]
           r == AttachAll([views |-> marked, stViews |-> stViews],
                          {states[s] : s \in att}, v)
       IN /\ views' = r.views
          /\ stViews' = r.stViews
    /\ last' = [L0 EXCEPT !.op = "addView", !.aut = a, !.view = v, !.arg = sname]
    /\ UNCHANGED <<names, connectedApps, allTomata, states, stAutomata, now, initialState,
                   buffer, context, calls>>

(* ---------------------------------------------------------------------- *)
(* Factory: createAutomata                                                 *)
(* ---------------------------------------------------------------------- *)
\* new Automata({states}): states.forEach(this.addState) calls addState with
\* this undefined, so the first unregistered name raises at "this.name"
ConstructorThrows(tbl, list) ==
    \E i \in DOMAIN list : ~Truthy(StatesGet(tbl, StName(list[i])))

createAutomata(a, list) ==
    /\ ~Created(a)
    /\ IF ConstructorThrows(states, list)
       THEN /\ last' = [L0 EXCEPT !.op = "createAutomata", !.aut = a,
                                  !.list = list,
                                  !.result = "threw", !.error = "TypeError"]
            /\ UNCHANGED <<allTomata, connectedApps, states, stAutomata, now, initialState>>
       ELSE /\ allTomata' = Append(allTomata, a)
            /\ now' = [now EXCEPT ![a] = NULL]
            /\ states' = AddStateTable(states, a, FailedOf(a))
            /\ stAutomata' = AddStateOwner(states, stAutomata, a, FailedOf(a))
            /\ connectedApps' = [connectedApps EXCEPT ![a] = <<>>]
            /\ last' = [L0 EXCEPT !.op = "createAutomata", !.aut = a, !.list = list]
            /\ UNCHANGED initialState
    /\ UNCHANGED <<names, views, stViews, buffer, context, calls>>

(* ---------------------------------------------------------------------- *)
(* Factory: connect                                                        *)
(* ---------------------------------------------------------------------- *)
\* App objects of the client
Apps == {"app1", "app2"}

\* connectedApps[f].add(app) for each name f of the list that allTomata holds
RECURSIVE Connect(_, _, _)
Connect(ca, app, list) ==
    IF list = <<>> THEN ca
    ELSE LET f == Head(list)
             added == IF Created(f) /\ app \notin Range(ca[f])
                      THEN [ca EXCEPT ![f] = Append(@, app)] ELSE ca
         IN Connect(added, app, Tail(list))

connect(app, list) ==
    /\ connectedApps' = Connect(connectedApps, app, list)
    /\ last' = [L0 EXCEPT !.op = "connect", !.obj = app, !.list = list]
    /\ UNCHANGED <<names, allTomata, states, stAutomata, stViews, views, now,
                   initialState, buffer, context, calls>>

(* ---------------------------------------------------------------------- *)
(* Automata.init                                                           *)
(* ---------------------------------------------------------------------- *)
init(a, n) ==
    /\ Created(a)
    /\ IF Truthy(StatesGet(states, n))
       THEN /\ initialState' = [initialState EXCEPT ![a] = n]
            /\ now' = [now EXCEPT ![a] = StatesGet(states, n)]
            /\ last' = [L0 EXCEPT !.op = "init", !.aut = a, !.arg = n]
       ELSE /\ last' = [L0 EXCEPT !.op = "init", !.aut = a, !.arg = n,
                                  !.result = "threw", !.error = "UnknownState"]
            /\ UNCHANGED <<initialState, now>>
    /\ UNCHANGED <<names, connectedApps, allTomata, states, stAutomata, stViews, views,
                   buffer, context, calls>>

(* ---------------------------------------------------------------------- *)
(* State.transit: what the dispatch on a State object does                 *)
(* ---------------------------------------------------------------------- *)
\* how the promise of State.transit will settle, and what the handler wrote
\* before it suspended or raised
Outcome(settle, error, write, touch) ==
    [settle |-> settle, error |-> error, write |-> write, touch |-> touch]

\* the "failed" handler createAutomata defines: reads input.message, writes
\* buffer.failedOutput, then calls omega(...), which no scope defines
FailedHandler(input) ==
    IF input.kind = "undef" THEN Outcome("raise", "TypeError", FALSE, FALSE)
    ELSE Outcome("raise", "ReferenceError", TRUE, FALSE)

\* the "back" handler createAutomata defines: calls omega(...) too
BackHandler == Outcome("raise", "ReferenceError", FALSE, FALSE)

\* this[name](delta) for a handler defineAction registered
Handler(o, action, input) ==
    IF o \in FailedStates
    THEN (IF action = "failed" THEN FailedHandler(input) ELSE BackHandler)
    ELSE Outcome("any", "none", FALSE, TRUE)

\* this.failed(delta): the own handler named "failed" if there is one, else
\* State.prototype.failed, which returns createOmega("failed", ...)
StateFailed(o, input) ==
    IF "failed" \in StActions(o) THEN Handler(o, "failed", input)
    ELSE Outcome("default", "none", FALSE, FALSE)

\* (this[delta.action] && await this[delta.action](delta)) || this.failed(delta)
State_transit(o, action, input) ==
    IF StateProp(o, action) = "handler" THEN Handler(o, action, input)
    ELSE IF StateProp(o, action) = "method" /\ action = "failed" THEN StateFailed(o, input)
    ELSE IF StateProp(o, action) = "method" THEN Outcome("raise", "TypeError", FALSE, FALSE)
    ELSE StateFailed(o, input)

(* ---------------------------------------------------------------------- *)
(* Automata.transit up to its await                                        *)
(* ---------------------------------------------------------------------- *)
Ev(name, a) == [ev |-> name, aut |-> a]

\* the part of the machine a dispatch changes, with what the call reports
M0 == [calls |-> calls, buffer |-> buffer, context |-> context,
       events |-> <<>>, started |-> <<>>, asked |-> <<>>,
       transited |-> FALSE, result |-> "ok", error |-> "none"]

\* transit(delta) past its "if (!this.now)", run to the await of the handler
Dispatch(m, a, action, input) ==
    IF now[a] = OBJECT
    THEN [m EXCEPT !.events = @ \o <<Ev("beforeTransition", a), Ev("failedTransition", a)>>,
                   !.result = "rejected", !.error = "TypeError"]
    ELSE LET h == State_transit(now[a], action, input)
         IN [m EXCEPT
               !.calls = Append(@, [aut |-> a, st |-> now[a], action |-> action,
                                    from |-> NowName(now[a]),
                                    settle |-> h.settle, error |-> h.error]),
               !.buffer = IF h.write
                          THEN [@ EXCEPT ![a] = [set |-> TRUE, message |-> input.message,
                                                 from |-> input.from]]
                          ELSE @,
               !.context = IF h.touch THEN [@ EXCEPT ![a] = 1] ELSE @,
               !.events = Append(@, Ev("beforeTransition", a)),
               !.started = Append(@, a),
               !.result = "pending"]

\* transit with the test of this.now placed after the beforeTransition event
TransitSyncLateGuard(m, a, action, input) ==
    IF ~Truthy(now[a])
    THEN [m EXCEPT !.events = Append(@, Ev("beforeTransition", a)),
                   !.result = "rejected", !.error = "NotInitialized"]
    ELSE Dispatch(m, a, action, input)

\* transit(delta) on automaton a, run to the await of the handler
TransitSync(m, a, action, input) ==
    IF ~Truthy(now[a])
    THEN [m EXCEPT !.result = "rejected", !.error = "NotInitialized"]
    ELSE Dispatch(m, a, action, input)

\* the state a failure was captured from, when the operation just before
\* this call was the failing transit of automaton a and nothing else is in flight
CapturedFrom(a) ==
    IF last.op = "settle" /\ last.aut = a /\ last.handler = "raised" /\ calls = <<>>
    THEN last.from ELSE NULL

transit(a, action, input) ==
    /\ Created(a)
    /\ LET m == TransitSync(M0, a, action, input)
       IN /\ Len(m.calls) <= MaxPending
          /\ calls' = m.calls
          /\ buffer' = m.buffer
          /\ context' = m.context
          /\ last' = [L0 EXCEPT !.op = "transit", !.aut = a, !.action = action,
                                !.from = NowName(now[a]),
                                !.prev = now[a],
                                !.recover = CapturedFrom(a),
                                !.result = m.result, !.error = m.error,
                                !.events = m.events, !.started = m.started]
    /\ UNCHANGED <<names, connectedApps, allTomata, states, stAutomata, stViews, views, now, initialState>>

(* ---------------------------------------------------------------------- *)
(* Automata.tryTransit and View.transit                                    *)
(* ---------------------------------------------------------------------- *)
\* tryTransit({input, action}) on automaton a
TryTransitOn(m, a, action, input) ==
    IF now[a] = NULL
    THEN [m EXCEPT !.result = "threw", !.error = "TypeError"]
    ELSE IF Truthy(StateProp(now[a], action))
    THEN [TransitSync(m, a, action, input) EXCEPT
            !.asked = Append(@, [aut |-> a, accepted |-> TRUE]),
            !.transited = TRUE, !.result = "true", !.error = "none"]
    ELSE [m EXCEPT !.asked = Append(@, [aut |-> a, accepted |-> FALSE]),
                   !.transited = FALSE, !.result = "false"]

tryTransit(a, action, input) ==
    /\ Created(a)
    /\ LET m == TryTransitOn(M0, a, action, input)
       IN /\ Len(m.calls) <= MaxPending
          /\ calls' = m.calls
          /\ buffer' = m.buffer
          /\ context' = m.context
          /\ last' = [L0 EXCEPT !.op = "tryTransit", !.aut = a, !.action = action,
                                !.prev = now[a],
                                !.result = m.result, !.error = m.error,
                                !.events = m.events, !.started = m.started,
                                !.asked = m.asked]
    /\ UNCHANGED <<names, connectedApps, allTomata, states, stAutomata, stViews, views, now, initialState>>

\* targetAutomata taken to be every automaton, whatever name was given
TargetAutomataAll(automata) == allTomata

\* targetAutomata: [allTomata[automata]] with the undefined entry skipped by
\* "if (a)", or Object.values(allTomata)
TargetAutomata(automata) ==
    IF Truthy(automata)
    THEN (IF Created(automata) THEN <<automata>> ELSE <<>>)
    ELSE allTomata

\* targetAutomata.forEach(a => { transited = a.tryTransit(...) }); an
\* exception raised by tryTransit ends the loop
RECURSIVE ForEachTryTransit(_, _, _, _)
ForEachTryTransit(m, targets, action, input) ==
    IF targets = <<>> \/ m.result = "threw" THEN m
    ELSE ForEachTryTransit(TryTransitOn(m, Head(targets), action, input),
                           Tail(targets), action, input)

\* the error View.transit leaves with, "none" when it returns
ViewTransitError(m) ==
    IF m.result = "threw" THEN m.error
    ELSE IF ~m.transited THEN "NoMatchingTransition"
    ELSE "none"

View_transit(v, action, input, automata) ==
    /\ v \in DOMAIN views
    /\ LET target == IF Truthy(automata) THEN automata ELSE views[v].automata
           m == ForEachTryTransit(M0, TargetAutomata(target), action, input)
       IN /\ Len(m.calls) <= MaxPending
          /\ calls' = m.calls
          /\ buffer' = m.buffer
          /\ context' = m.context
          /\ last' = [L0 EXCEPT !.op = "View.transit", !.view = v, !.action = action,
                                !.arg = target,
                                !.result = IF ViewTransitError(m) = "none" THEN "ok" ELSE "threw",
                                !.error = ViewTransitError(m),
                                !.events = m.events, !.started = m.started,
                                !.asked = m.asked]
    /\ UNCHANGED <<names, connectedApps, allTomata, states, stAutomata, stViews, views, now, initialState>>

(* ---------------------------------------------------------------------- *)
(* Automata.transit after its await                                        *)
(* ---------------------------------------------------------------------- *)
RemoveAt(q, i) == SubSeq(q, 1, i - 1) \o SubSeq(q, i + 1, Len(q))

\* states[omega.next] || states.init || states.failed
NextNow(tbl, nx) ==
    IF Truthy(StatesGet(tbl, nx)) THEN StatesGet(tbl, nx)
    ELSE IF Truthy(StatesGet(tbl, "init")) THEN StatesGet(tbl, "init")
    ELSE StatesGet(tbl, "failed")

\* omega.views = Object.values(this.now.views)
OmegaViews(o) == ObjectValues(views, stViews[o])

\* what the callback createAutomata registers for "afterTransition" does for
\* the automaton named name: onTransition of each App of connectedApps[name]
OnAfterTransition(name) == connectedApps[name]

\* automataEventBus.emit("afterTransition", ...): the bus is one object of the
\* Automata closure, so it holds the callback of every createAutomata call;
\* emit calls them in the order they were registered
RECURSIVE EmitAfterTransition(_)
EmitAfterTransition(listeners) ==
    IF listeners = <<>> THEN <<>>
    ELSE OnAfterTransition(Head(listeners)) \o EmitAfterTransition(Tail(listeners))

\* this.now.cleanUp(): the State objects it is invoked on when cur is the
\* current state (the function Object has no cleanUp)
CleanUpOn(cur) == IF cur = OBJECT THEN <<>> ELSE <<cur>>

\* the handler resolved with an Omega whose next is nx
Resolved(i, nx) ==
    LET c == calls[i]
        a == c.aut
        new == NextNow(states, nx)
        base == [L0 EXCEPT !.op = "settle", !.aut = a, !.action = c.action,
                           !.from = c.from, !.obj = c.st, !.prev = now[a],
                           !.handler = "resolved", !.next = nx,
                           !.cleanUp = CleanUpOn(now[a])]
    IN IF now[a] = OBJECT
       \* this.now.cleanUp is not a function: the catch block runs, and its
       \* this.now.transit(...) raises out of it
       THEN /\ last' = [base EXCEPT !.result = "rejected", !.error = "TypeError",
                                    !.events = <<Ev("failedTransition", a)>>]
            /\ UNCHANGED now
       ELSE /\ now' = [now EXCEPT ![a] = new]
            /\ last' = IF new = OBJECT
                       \* Object.values(undefined) raises
                       THEN [base EXCEPT !.result = "rejected", !.error = "TypeError"]
                       ELSE [base EXCEPT !.result = "returned",
                                         !.omegaViews = OmegaViews(new),
                                         !.notified = EmitAfterTransition(allTomata),
                                         !.events = <<Ev("dataTransition", a),
                                                      Ev("afterTransition", a)>>]

\* the handler raised or rejected with the error e: the catch block. Its
\* this.now.transit("failed", {...}) passes the string "failed" as delta, so
\* whatever runs reads no input and no buffer and writes nothing; omega is
\* still undefined when "omega.views = ..." runs, so the call rejects
Raised(i, e) ==
    LET c == calls[i]
        a == c.aut
        base == [L0 EXCEPT !.op = "settle", !.aut = a, !.action = c.action,
                           !.from = c.from, !.obj = c.st, !.prev = now[a],
                           !.handler = "raised", !.error = e,
                           !.cleanUp = CleanUpOn(now[a]),
                           !.result = "rejected",
                           !.events = <<Ev("failedTransition", a)>>]
    IN /\ last' = base
       /\ IF now[a] = OBJECT THEN UNCHANGED now
          ELSE now' = [now EXCEPT ![a] = StatesGet(states, "failed")]

\* the promise of the handler of the suspended call i settles
settle(i) ==
    /\ i \in DOMAIN calls
    /\ CASE calls[i].settle = "any" ->
              \/ \E nx \in NameArgs : Resolved(i, nx)
              \/ Raised(i, "network error")
         [] calls[i].settle = "default" -> Resolved(i, "failed")
         [] OTHER -> Raised(i, calls[i].error)
    /\ calls' = RemoveAt(calls, i)
    /\ UNCHANGED <<names, connectedApps, allTomata, states, stAutomata, stViews, views, initialState,
                   buffer, context>>

(* ---------------------------------------------------------------------- *)
(* Specification                                                           *)
(* ---------------------------------------------------------------------- *)
StateLists == {<<>>} \cup {<<o>> : o \in UserStates}

\* the engine of one automaton: registration, init, transit, tryTransit
EngineAutomata == {"login"}

Next ==
    \/ \E a \in EngineAutomata, l \in StateLists : createAutomata(a, l)
    \/ \E a \in EngineAutomata, o \in UserStates : addState(a, o)
    \/ \E a \in EngineAutomata, n \in NameArgs : init(a, n)
    \/ \E a \in EngineAutomata, x \in ActionNames, i \in Inputs : transit(a, x, i)
    \/ \E a \in EngineAutomata, x \in ActionNames, i \in Inputs : tryTransit(a, x, i)
    \/ \E i \in 1..MaxPending : settle(i)

Spec == Init /\ [][Next]_vars

\* the registries: automata are created, State objects named "idle" are
\* registered, Views are created and attached to them; no transit is issued
RegistryStates == {"idle1", "idle2"}

NextRegistry ==
    \/ \E a \in AutomataNames, l \in {<<>>, <<"idle1">>} : createAutomata(a, l)
    \/ \E n \in ViewNames, r \in BOOLEAN : createView(n, r, "")
    \/ \E a \in AutomataNames, o \in RegistryStates : addState(a, o)
    \/ \E o \in RegistryStates, v \in 1..MaxViews : State_addView(o, v)

SpecRegistry == Init /\ [][NextRegistry]_vars

\* views on the states of one automaton: Views are created and attached to
\* the state "idle", and transits make it current
NextViews ==
    \/ createAutomata("login", <<>>)
    \/ \E n \in ViewNames : createView(n, TRUE, "")
    \/ addState("login", "idle1")
    \/ \E v \in 1..MaxViews, n \in {"", "idle"} : Automata_addView("login", v, n)
    \/ init("login", "idle")
    \/ \E x \in {"go", "back"} : transit("login", x, InUndef)
    \/ \E i \in 1..MaxPending : settle(i)

SpecViews == Init /\ [][NextViews]_vars

\* broadcast: a View routes an action to the automata through View.transit
NextBroadcast ==
    \/ \E a \in AutomataNames : createAutomata(a, <<>>)
    \/ \E a \in {"", "login"} : createView("header", TRUE, a)
    \/ \E a \in AutomataNames : addState(a, "idle1")
    \/ \E a \in AutomataNames, n \in {"idle", "failed"} : init(a, n)
    \/ \E v \in 1..MaxViews, a \in {""} \cup AutomataNames :
          View_transit(v, "logout", InUndef, a)
    \/ \E i \in 1..MaxPending : settle(i)

SpecBroadcast == Init /\ [][NextBroadcast]_vars

\* one automaton with one client state: init and transit, before and after init
NextInit ==
    \/ createAutomata("login", <<>>)
    \/ addState("login", "idle1")
    \/ \E n \in {"idle", "nowhere"} : init("login", n)
    \/ \E x \in {"go", "back"}, i \in Inputs : transit("login", x, i)
    \/ \E i \in 1..MaxPending : settle(i)

SpecInit == Init /\ [][NextInit]_vars

\* frame: two automata, transit called on one of them directly and through
\* a View bound to "login"
NextFrame ==
    \/ \E a \in AutomataNames : createAutomata(a, <<>>)
    \/ createView("header", TRUE, "login")
    \/ addState("login", "idle1")
    \/ init("login", "idle")
    \/ init("cart", "failed")
    \/ \E a \in AutomataNames : transit(a, "go", InObj)
    \/ \E v \in 1..MaxViews, a \in {"", "cart"} : View_transit(v, "go", InUndef, a)
    \/ \E i \in 1..MaxPending : settle(i)

SpecFrame == Init /\ [][NextFrame]_vars

\* apps: Apps are connected to the automata, whose transits complete
NextApps ==
    \/ \E a \in AutomataNames : createAutomata(a, <<>>)
    \/ \E p \in Apps, l \in {<<"login">>, <<"cart">>, <<"login", "cart">>} : connect(p, l)
    \/ addState("login", "idle1")
    \/ \E a \in AutomataNames : init(a, "idle")
    \/ \E a \in AutomataNames : transit(a, "go", InUndef)
    \/ \E i \in 1..MaxPending : settle(i)

SpecApps == Init /\ [][NextApps]_vars

(* ---------------------------------------------------------------------- *)
(* Claims                                                                  *)
(* ---------------------------------------------------------------------- *)
\* n is an own key of the state table holding a State
Registered(n) == n \in TableKeys /\ states[n] # UNDEF

\* C1: when the handler a transit invoked raises or rejects, then once the
\* call has settled the current state is "failed" and buffer.failedOutput is
\* {message: the error's message, from: the state the call was issued in}
C1_FailureCaptured ==
    (last.op = "settle" /\ last.handler = "raised")
        => /\ NowName(now[last.aut]) = "failed"
           /\ buffer[last.aut] = [set |-> TRUE, message |-> last.error, from |-> last.from]

\* C2: a transit with action "back" issued right after a failure was captured
\* from state p, with nothing else in between, makes p the current state
C2_BackRestores ==
    [][(/\ last.op = "transit" /\ last.action = "back" /\ last.result = "pending"
        /\ last.recover # NULL
        /\ last'.op = "settle" /\ last'.aut = last.aut)
          => NowName(now'[last.aut]) = last.recover]_vars

\* C3: once init succeeded on a registered state, the current state of the
\* automaton is always a State held by the state table
C3_CurrentRegistered ==
    \A a \in AutomataNames :
        (Created(a) /\ Registered(initialState[a]))
            => \E n \in TableKeys : Registered(n) /\ now[a] = states[n]

\* C4: the Omega a transit returns after its handler resolved has a next that
\* names a registered state or is "failed"
C4_OmegaNextRegistered ==
    (last.op = "settle" /\ last.handler = "resolved" /\ last.result = "returned")
        => (Registered(last.next) \/ last.next = "failed")

\* C5: init(s) with s registered makes s the current and the initial state;
\* with s not registered it fails with UnknownStateError and changes neither
C5_Init ==
    [][(last'.op = "init")
          => LET a == last'.aut
                 s == last'.arg
             IN IF Registered(s)
                THEN /\ last'.result = "ok"
                     /\ NowName(now'[a]) = s
                     /\ initialState'[a] = s
                ELSE /\ last'.result = "threw"
                     /\ last'.error = "UnknownState"
                     /\ now'[a] = now[a]
                     /\ initialState'[a] = initialState[a]]_vars

\* C6: View.transit with no automaton named asks the automata in
\* registration order and only the first one whose current state defines the
\* action starts a transition
Accepting(asked) == SelectSeq(asked, LAMBDA r : r.accepted)

C6_FirstAcceptanceWins ==
    (last.op = "View.transit" /\ ~Truthy(last.arg) /\ last.error # "TypeError")
        => last.started = IF Accepting(last.asked) = <<>> THEN <<>>
                          ELSE <<Accepting(last.asked)[1].aut>>

\* C7: View.transit throws NoMatchingTransitionError exactly when none of the
\* automata it asked accepts the action
C7_ThrowsIffNoneAccepts ==
    (last.op = "View.transit" /\ last.error # "TypeError")
        => ((last.error = "NoMatchingTransition") <=> (Accepting(last.asked) = <<>>))

\* C8: createView fails, and returns no View, when a View of that name was
\* created before and when render is missing
C8_CreateViewUnique ==
    (last.op = "createView"
        /\ (~last.render
            \/ \E v \in DOMAIN views : v # last.view /\ views[v].name = last.arg))
        => (last.result = "threw" /\ last.view = 0)

\* C9: addState of a State whose name the table already holds changes
\* nothing: the table keeps the State it held, and the State passed and the
\* Views get no automaton name
C9_AddStateIdempotent ==
    [][(last'.op = "addState" /\ Registered(last'.arg))
          => /\ states' = states
             /\ stAutomata' = stAutomata
             /\ views' = views]_vars

\* a second State named "idle", with a View attached, was passed to addState
\* after the first one was registered
C9_Witness ==
    /\ last.op = "addState" /\ last.obj = "idle2"
    /\ states["idle"] = "idle1"
    /\ stAutomata["idle2"] = UNDEF
    /\ stViews["idle2"] # <<>>
    /\ \A v \in Range(stViews["idle2"]) : views[v].automata = UNDEF

\* C10: the Omega a transit returns lists the Views attached to the new
\* current state, in the order they were attached
C10_OmegaViewsInAttachmentOrder ==
    (last.op = "settle" /\ last.result = "returned")
        => last.omegaViews = stViews[now[last.aut]]

\* C11: no automaton ever has two transit calls suspended on their handlers
\* at the same time
InFlight(a) == {i \in DOMAIN calls : calls[i].aut = a}

C11_OneTransitInFlight ==
    \A a \in AutomataNames : Cardinality(InFlight(a)) <= 1

\* C12: a completed transit of an automaton invokes onTransition once on
\* every App connected to that automaton, and on no other App
Count(q, x) == Cardinality({i \in DOMAIN q : q[i] = x})

C12_ConnectedAppsNotifiedOnce ==
    (last.op = "settle" /\ last.result = "returned")
        => \A p \in Apps :
              Count(last.notified, p)
                 = IF p \in Range(connectedApps[last.aut]) THEN 1 ELSE 0

\* C13: each automaton has a state table of its own: the "failed" State
\* built for it is registered and bound to its name, and the State that init
\* or a transit makes current is one that was registered in that automaton
C13_OwnStateTable ==
    \A a \in AutomataNames :
        Created(a) => /\ stAutomata[FailedOf(a)] = a
                      /\ now[a] \in StateObjs => stAutomata[now[a]] = a

\* C14: transit on an automaton whose current state is unset rejects with
\* NotInitializedError, emits no event, invokes no handler and leaves the
\* current state, the context and the buffer as they were
C14_TransitBeforeInit ==
    [][(last'.op = "transit" /\ now[last'.aut] = NULL)
          => /\ last'.result = "rejected"
             /\ last'.error = "NotInitialized"
             /\ last'.events = <<>>
             /\ last'.started = <<>>
             /\ calls' = calls
             /\ now' = now
             /\ context' = context
             /\ buffer' = buffer]_vars

\* a transit was issued on a created automaton before any init, and rejected
C14_Witness ==
    /\ last.op = "transit" /\ last.error = "NotInitialized"
    /\ Created(last.aut) /\ now[last.aut] = NULL

\* C15: createAutomata with any list of States, empty or not, returns an
\* automaton registered under its name in which every State of the list is
\* registered and bound to that name, and in which "failed" is registered
C15_CreateAutomataRegistersStates ==
    last.op = "createAutomata"
        => /\ last.result # "threw"
           /\ Created(last.aut)
           /\ Registered("failed")
           /\ \A i \in DOMAIN last.list :
                 /\ Registered(StName(last.list[i]))
                 /\ stAutomata[last.list[i]] = last.aut

\* C16: when the handler resolves with a next that is a registered state the
\* new current state is that state; otherwise it is the initial state, the
\* one init set, and "failed" only when there is none
C16_FallbackToInitialState ==
    (last.op = "settle" /\ last.handler = "resolved"
        /\ last.prev \in StateObjs /\ last.next \notin ObjectProtoKeys)
        => now[last.aut] =
              IF Registered(last.next) THEN states[last.next]
              ELSE IF Registered(initialState[last.aut])
                   THEN states[initialState[last.aut]]
                   ELSE states["failed"]

\* C17: a transit whose action has no handler registered on the current
\* State, the injected "failed" State included, resolves to the default Omega
\* with next "failed": the current state becomes "failed" and the Omega is
\* returned, without a rejection and without failedTransition
C17_UnmatchedActionRoutesToFailed ==
    (last.op = "settle" /\ last.prev = last.obj
        /\ last.action \notin StActions(last.obj))
        => /\ last.handler = "resolved"
           /\ last.next = "failed"
           /\ last.result = "returned"
           /\ NowName(now[last.aut]) = "failed"
           /\ \A k \in DOMAIN last.events : last.events[k].ev # "failedTransition"

\* C18: tryTransit returns true exactly when a handler for the action was
\* registered on the current State and false for every other action name;
\* when it returns false the current state, the context and the buffer are
\* unchanged and no lifecycle event is emitted
C18_TryTransitIffRegistered ==
    [][(last'.op = "tryTransit" /\ now[last'.aut] \in StateObjs)
          => /\ (last'.result = "true")
                    <=> (last'.action \in StActions(now[last'.aut]))
             /\ last'.result \in {"true", "false"}
             /\ last'.result = "false"
                    => /\ now' = now /\ context' = context /\ buffer' = buffer
                       /\ last'.events = <<>>]_vars

\* C19: a transit whose handler raises or rejects completes the protocol:
\* after failedTransition it takes the views of the "failed" State, emits
\* dataTransition then afterTransition, and returns an Omega; the call does
\* not reject
C19_HandlerErrorCompletes ==
    (last.op = "settle" /\ last.handler = "raised" /\ last.obj \in UserStates)
        => /\ last.result = "returned"
           /\ last.omegaViews = OmegaViews(states["failed"])
           /\ last.events = <<Ev("failedTransition", last.aut),
                              Ev("dataTransition", last.aut),
                              Ev("afterTransition", last.aut)>>

\* C20: for a transit on an initialised automaton whose handler resolves,
\* beforeTransition alone is emitted up to the invocation of the handler, and
\* once the handler has resolved the current state is swapped and
\* dataTransition then afterTransition are emitted, once each, with no
\* failedTransition
C20_EventOrder ==
    /\ (last.op = "transit" /\ last.prev # NULL /\ last.result = "pending")
           => last.events = <<Ev("beforeTransition", last.aut)>>
    /\ (last.op = "settle" /\ last.handler = "resolved")
           => /\ last.result = "returned"
              /\ now[last.aut] = NextNow(states, last.next)
              /\ last.events = <<Ev("dataTransition", last.aut),
                                 Ev("afterTransition", last.aut)>>

\* C21: for every transit call that dispatched to a handler, cleanUp is
\* invoked exactly once and on the State that was current when the call was
\* dispatched, also when another transit on the automaton was started before
\* the handler of this one settled (taken for calls dispatched on the state
\* init last named, so that only transits moved the automaton meanwhile)
C21_CleanUpOnDispatchingState ==
    (last.op = "settle" /\ last.prev \in StateObjs
        /\ initialState[last.aut] = StName(last.obj))
        => last.cleanUp = <<last.obj>>

\* C22: the completed transitions of an automaton form a path: the delta.from
\* of each afterTransition event is the name of the state the preceding
\* completed transition made current, whatever the order the handlers settle
\* in (stated for two completions that follow one another directly)
C22_CompletedTransitionsFormPath ==
    [][(/\ last.op = "settle" /\ last.result = "returned"
        /\ last'.op = "settle" /\ last'.result = "returned"
        /\ last'.aut = last.aut)
          => last'.from = NowName(now[last'.aut])]_vars

\* C23: a transit called on an automaton leaves the current state, the
\* initialState, the context and the buffer of every other automaton as they
\* were, and a View.transit that names an automaton (or is issued by a View
\* bound to one) asks no other automaton
C23_OtherAutomataUntouched ==
    [][/\ last'.op \in {"transit", "settle"}
            => \A b \in AutomataNames \ {last'.aut} :
                  /\ now'[b] = now[b]
                  /\ initialState'[b] = initialState[b]
                  /\ context'[b] = context[b]
                  /\ buffer'[b] = buffer[b]
       /\ (last'.op = "View.transit" /\ last'.arg \in AutomataNames)
            => \A k \in DOMAIN last'.asked : last'.asked[k].aut = last'.arg]_vars

\* a View bound to "login" had its action accepted by login while cart was
\* initialised too, after direct transits wrote the context of login and the
\* buffer of cart and left the buffer of login and the context of cart as
\* created
C23_Witness ==
    /\ last.op = "View.transit" /\ last.arg = "login"
    /\ last.asked = <<[aut |-> "login", accepted |-> TRUE]>>
    /\ now["cart"] \in StateObjs
    /\ context["login"] = 1 /\ context["cart"] = 0
    /\ buffer["cart"].set /\ ~buffer["login"].set

====
